---------------------------- MODULE Spec2Model ----------------------------
(***************************************************************************)
(* A model of treerite's binding layer: the data-type tag bridge and the   *)
(* return-code translator of src/sys/mod.rs, and the DMatrix wrapper of    *)
(* src/dmatrix.rs with the native data-matrix library it calls into.       *)
(*                                                                         *)
(* C strings (CStr) are sequences of bytes 1..255, Rust Strings are        *)
(* sequences of Unicode code points, native handles are allocation ids     *)
(* (0 is the null pointer).                                                *)
(***************************************************************************)
EXTENDS Integers, Sequences, FiniteSets

VARIABLES
    free_panic,   \* cfg!(feature = "free_panic"): fixed when the crate is built
    prog,         \* "running" | "unwinding" (a panic is propagating) | "aborted"
    objs,         \* the DMatrix wrapper objects of the program, by slot
    nextHandle,   \* native side: the next allocation's handle
    nativeLive,   \* native side: handles allocated and not released
    nativeDims,   \* native side: <<rows, cols>> of each live handle
    freeCalls,    \* native side: free calls received, per handle
    lastError,    \* native side: the last-error store (bytes)
    ret,          \* what the last DMatrix / sys operation returned
    conv          \* what the last DataType conversion returned

vars == <<free_panic, prog, objs, nextHandle, nativeLive, nativeDims,
          freeCalls, lastError, ret, conv>>

(***************************************************************************)
(* Bounds of the model.                                                    *)
(***************************************************************************)
MaxObjects == 2     \* DMatrix objects a run constructs
MaxLen == 2         \* longest slice, largest row / column count
MaxTokenLen == 2    \* longest enumerated type token (the named ones apart)
MaxMsgLen == 1      \* longest enumerated last-error message (the named ones apart)

(***************************************************************************)
(* CStr::to_string_lossy: UTF-8 decoding in which every maximal ill-formed *)
(* subpart becomes one U+FFFD.                                             *)
(***************************************************************************)
REPLACEMENT_CHARACTER == 65533

ByteAt(b, i) == IF i >= 1 /\ i <= Len(b) THEN b[i] ELSE 0

IsCont(x) == x >= 128 /\ x <= 191

\* bytes a sequence led by b0 takes, 0 when b0 leads none
Utf8Width(b0) ==
    IF b0 < 128 THEN 1
    ELSE IF b0 >= 194 /\ b0 <= 223 THEN 2
    ELSE IF b0 >= 224 /\ b0 <= 239 THEN 3
    ELSE IF b0 >= 240 /\ b0 <= 244 THEN 4
    ELSE 0

SecondOk(b0, b1) ==
    CASE b0 = 224 -> b1 >= 160 /\ b1 <= 191
      [] b0 = 237 -> b1 >= 128 /\ b1 <= 159
      [] b0 = 240 -> b1 >= 144 /\ b1 <= 191
      [] b0 = 244 -> b1 >= 128 /\ b1 <= 143
      [] OTHER -> IsCont(b1)

\* bytes of the sequence starting at i that are well formed so far
Utf8Good(b, i) ==
    LET n == Utf8Width(b[i]) IN
    IF n = 0 THEN 0
    ELSE IF n = 1 THEN 1
    ELSE IF ~SecondOk(b[i], ByteAt(b, i + 1)) THEN 1
    ELSE IF n = 2 THEN 2
    ELSE IF ~IsCont(ByteAt(b, i + 2)) THEN 2
    ELSE IF n = 3 THEN 3
    ELSE IF ~IsCont(ByteAt(b, i + 3)) THEN 3
    ELSE 4

CodePoint(b, i, n) ==
    CASE n = 1 -> b[i]
      [] n = 2 -> (b[i] - 192) * 64 + (b[i + 1] - 128)
      [] n = 3 -> (b[i] - 224) * 4096 + (b[i + 1] - 128) * 64 + (b[i + 2] - 128)
      [] OTHER -> (b[i] - 240) * 262144 + (b[i + 1] - 128) * 4096
                      + (b[i + 2] - 128) * 64 + (b[i + 3] - 128)

RECURSIVE LossyFrom(_, _)
LossyFrom(b, i) ==
    IF i > Len(b) THEN << >>
    ELSE LET n == Utf8Width(b[i])
             g == Utf8Good(b, i)
         IN  IF n > 0 /\ g = n
             THEN <<CodePoint(b, i, n)>> \o LossyFrom(b, i + n)
             ELSE <<REPLACEMENT_CHARACTER>> \o LossyFrom(b, i + (IF g = 0 THEN 1 ELSE g))

to_string_lossy(bytes) == LossyFrom(bytes, 1)

(***************************************************************************)
(* The data-type tag bridge.                                               *)
(***************************************************************************)
DTYPE_FLOAT32 == <<102, 108, 111, 97, 116, 51, 50>>   \* "float32"
DTYPE_FLOAT64 == <<102, 108, 111, 97, 116, 54, 52>>   \* "float64"
DTYPE_UINT32 == <<117, 105, 110, 116, 51, 50>>        \* "uint32"

DataType == {"Float32", "Float64", "UInt32"}

NoError == [kind |-> "none", text |-> << >>]

UnknownDataTypeString(s) == [kind |-> "UnknownDataTypeString", text |-> s]

CError(s) == [kind |-> "CError", text |-> s]

\* impl From<DataType> for &'static CStr, with UInt32 sent to the float32 token
from_DataType_swapped(val) ==
    CASE val = "Float32" -> DTYPE_FLOAT32
      [] val = "Float64" -> DTYPE_FLOAT64
      [] val = "UInt32" -> DTYPE_FLOAT32

\* impl From<DataType> for &'static CStr
from_DataType(val) ==
    CASE val = "Float32" -> DTYPE_FLOAT32
      [] val = "Float64" -> DTYPE_FLOAT64
      [] val = "UInt32" -> DTYPE_UINT32

\* impl TryInto<DataType> for &'static CStr, with an unknown token coerced
\* to Float32
try_into_DataType_default(self) ==
    IF self = DTYPE_FLOAT32 THEN [ok |-> TRUE, val |-> "Float32", err |-> NoError]
    ELSE IF self = DTYPE_FLOAT64 THEN [ok |-> TRUE, val |-> "Float64", err |-> NoError]
    ELSE IF self = DTYPE_UINT32 THEN [ok |-> TRUE, val |-> "UInt32", err |-> NoError]
    ELSE [ok |-> TRUE, val |-> "Float32", err |-> NoError]

\* impl TryInto<DataType> for &'static CStr
try_into_DataType(self) ==
    IF self = DTYPE_FLOAT32 THEN [ok |-> TRUE, val |-> "Float32", err |-> NoError]
    ELSE IF self = DTYPE_FLOAT64 THEN [ok |-> TRUE, val |-> "Float64", err |-> NoError]
    ELSE IF self = DTYPE_UINT32 THEN [ok |-> TRUE, val |-> "UInt32", err |-> NoError]
    ELSE [ok |-> FALSE, val |-> "none",
          err |-> UnknownDataTypeString(to_string_lossy(self))]

(***************************************************************************)
(* The return-code translator.                                             *)
(***************************************************************************)
\* get_last_error: reads the native last-error store
get_last_error(store) == CError(to_string_lossy(store))

\* RetCodeCheck::check that takes only positive codes for failures
check_positive(self, store) ==
    IF self > 0
    THEN [ok |-> FALSE, err |-> get_last_error(store), queried |-> 1]
    ELSE [ok |-> TRUE, err |-> NoError, queried |-> 0]

\* RetCodeCheck::check; queried counts the TreeliteGetLastError calls it makes
check(self, store) ==
    IF self # 0
    THEN [ok |-> FALSE, err |-> get_last_error(store), queried |-> 1]
    ELSE [ok |-> TRUE, err |-> NoError, queried |-> 0]

(***************************************************************************)
(* The native library, as the binding layer sees it.  A call returns its   *)
(* return code rc, its out-parameter out, and the native state nat it      *)
(* leaves.  A failing call writes its message to the last-error store.     *)
(***************************************************************************)
Handles == 1..MaxObjects

NoDims == <<0, 0>>

Native == [next |-> nextHandle, live |-> nativeLive, dims |-> nativeDims,
           frees |-> freeCalls, store |-> lastError]

\* messages the library reports: "S!" for a refused shape and, for a refused
\* handle, a message that is not UTF-8
MsgShape == <<83, 33>>

MsgHandle == <<72, 255>>

ErrMsgs == {MsgShape, MsgHandle}

\* return codes sampled for a call whose code is the environment's choice
RetCodes == {0 - 2, 0 - 1, 0, 1, 2}

TreeliteDMatrixCreate(accept, d) ==
    IF accept
    THEN [rc |-> 0, out |-> nextHandle,
          nat |-> [Native EXCEPT !.next = @ + 1,
                                 !.live = @ \cup {nextHandle},
                                 !.dims = [@ EXCEPT ![nextHandle] = d]]]
    ELSE [rc |-> 0 - 1, out |-> 0, nat |-> [Native EXCEPT !.store = MsgShape]]

TreeliteDMatrixGetDimension(h, fault) ==
    IF h \in nativeLive /\ ~fault
    THEN [rc |-> 0, out |-> nativeDims[h], nat |-> Native]
    ELSE [rc |-> 0 - 1, out |-> NoDims, nat |-> [Native EXCEPT !.store = MsgHandle]]

TreeliteDMatrixFree(h, fault) ==
    IF h \in nativeLive /\ ~fault
    THEN [rc |-> 0, out |-> 0,
          nat |-> [Native EXCEPT !.frees = [@ EXCEPT ![h] = @ + 1],
                                 !.live = @ \ {h},
                                 !.dims = [@ EXCEPT ![h] = NoDims]]]
    ELSE [rc |-> 0 - 1, out |-> 0,
          nat |-> [Native EXCEPT !.frees = [@ EXCEPT ![h] = @ + 1],
                                 !.store = MsgHandle]]

TreeliteRegisterLogCallback(rc, msg) ==
    [rc |-> rc, out |-> 0,
     nat |-> IF rc # 0 THEN [Native EXCEPT !.store = msg] ELSE Native]

(***************************************************************************)
(* The sys layer over the native data-matrix calls: make the call, check   *)
(* the return code, hand back the out-parameter.                           *)
(***************************************************************************)
Checked(n) ==
    LET c == check(n.rc, n.nat.store)
    IN  [ok |-> c.ok, val |-> n.out, err |-> c.err, queried |-> c.queried,
         rc |-> n.rc, nat |-> n.nat]

Divides(ncols, len) == ncols > 0 /\ len % ncols = 0

\* one row of data.len() columns; what an empty slice gives is the library's choice
treelite_dmatrix_create_from_slice(len, whim) ==
    Checked(TreeliteDMatrixCreate(len > 0 \/ whim, <<1, len>>))

\* len / ncols rows of ncols columns, refused when ncols does not divide len
treelite_dmatrix_create_from_slice_with_cols(len, ncols) ==
    Checked(TreeliteDMatrixCreate(Divides(ncols, len),
                IF Divides(ncols, len) THEN <<len \div ncols, ncols>> ELSE NoDims))

\* the array's own shape; what an empty array gives is the library's choice
treelite_dmatrix_create_from_array(rows, cols, whim) ==
    Checked(TreeliteDMatrixCreate((rows > 0 /\ cols > 0) \/ whim, <<rows, cols>>))

WellFormedCsr(headers, indices, num_row, num_col) ==
    /\ Len(headers) = num_row + 1
    /\ \A i \in 1..(Len(headers) - 1) : headers[i] <= headers[i + 1]
    /\ \A i \in 1..Len(indices) : indices[i] < num_col

treelite_dmatrix_create_from_csr_format(headers, indices, num_row, num_col) ==
    Checked(TreeliteDMatrixCreate(WellFormedCsr(headers, indices, num_row, num_col),
                <<num_row, num_col>>))

treelite_dmatrix_get_dimension(h, fault) ==
    Checked(TreeliteDMatrixGetDimension(h, fault))

treelite_dmatrix_free(h, fault) ==
    Checked(TreeliteDMatrixFree(h, fault))

(***************************************************************************)
(* The program around the wrapper: its DMatrix objects and what the last   *)
(* call returned.                                                          *)
(***************************************************************************)
Slots == 1..MaxObjects

NoObject == [st |-> "none", handle |-> 0, op |-> "none", args |-> << >>]

\* struct DMatrix { handle, _phantom }; op and args record how it was built
DMatrix(handle, op, args) ==
    [st |-> "live", handle |-> handle, op |-> op, args |-> args]

NoRet == [op |-> "none", obj |-> 0, args |-> << >>, rc |-> 0, ok |-> TRUE,
          val |-> 0, err |-> NoError, queried |-> 0, panicked |-> FALSE]

NoConv == [op |-> "none", arg |-> << >>, res |-> << >>, back |-> << >>]

Commit(nat) ==
    /\ nextHandle' = nat.next
    /\ nativeLive' = nat.live
    /\ nativeDims' = nat.dims
    /\ freeCalls' = nat.frees
    /\ lastError' = nat.store

\* the next object of the program is built in the lowest unused slot
FreeSlot(o) == objs[o].st = "none" /\ \A p \in Slots : p < o => objs[p].st # "none"

Returned(op, o, args, r, val) ==
    [op |-> op, obj |-> o, args |-> args, rc |-> r.rc, ok |-> r.ok,
     val |-> IF r.ok THEN val ELSE 0, err |-> r.err, queried |-> r.queried,
     panicked |-> FALSE]

\* `let handle = create(..)?; DMatrix { handle, .. }` that wraps the handle
\* whatever the create call returned
Bind_unchecked(o, op, args, r) ==
    /\ prog = "running"
    /\ FreeSlot(o)
    /\ objs' = [objs EXCEPT ![o] = DMatrix(r.val, op, args)]
    /\ Commit(r.nat)
    /\ ret' = Returned(op, o, args, r, r.val)
    /\ UNCHANGED <<free_panic, prog, conv>>

\* `let handle = create(..)?; DMatrix { handle, .. }`: the error is returned
\* before any DMatrix is built
Bind(o, op, args, r) ==
    /\ prog = "running"
    /\ FreeSlot(o)
    /\ objs' = IF r.ok THEN [objs EXCEPT ![o] = DMatrix(r.val, op, args)] ELSE objs
    /\ Commit(r.nat)
    /\ ret' = Returned(op, o, args, r, r.val)
    /\ UNCHANGED <<free_panic, prog, conv>>

from_2darray(o, rows, cols, whim) ==
    Bind(o, "from_2darray", <<rows, cols>>,
         treelite_dmatrix_create_from_array(rows, cols, whim))

\* impl TryInto<DMatrix<F>> for &[F]
try_into_DMatrix(o, len, whim) ==
    Bind(o, "try_into", <<len>>, treelite_dmatrix_create_from_slice(len, whim))

\* from_slice that builds its matrix with the slice as one column
from_slice_transposed(o, len, whim) ==
    Bind(o, "from_slice", <<len>>,
         treelite_dmatrix_create_from_slice_with_cols(len, 1))

\* from_slice: array.try_into()?
from_slice(o, len, whim) ==
    Bind(o, "from_slice", <<len>>, treelite_dmatrix_create_from_slice(len, whim))

from_slice_with_cols(o, len, ncols) ==
    Bind(o, "from_slice_with_cols", <<len, ncols>>,
         treelite_dmatrix_create_from_slice_with_cols(len, ncols))

from_csr_format(o, headers, indices, num_row, num_col) ==
    Bind(o, "from_csr_format", <<headers, indices, num_row, num_col>>,
         treelite_dmatrix_create_from_csr_format(headers, indices, num_row, num_col))

\* nrows that releases the handle once it has read the dimensions
nrows_freeing(o, fault) ==
    /\ prog = "running"
    /\ objs[o].st = "live"
    /\ LET r == treelite_dmatrix_get_dimension(objs[o].handle, fault)
           f == TreeliteDMatrixFree(objs[o].handle, FALSE)
       IN  /\ Commit([f.nat EXCEPT !.store = r.nat.store])
           /\ ret' = Returned("nrows", o, << >>, r, r.val[1])
    /\ UNCHANGED <<free_panic, prog, objs, conv>>

\* nrows that reads the second component of the dimension pair
nrows_second(o, fault) ==
    /\ prog = "running"
    /\ objs[o].st = "live"
    /\ LET r == treelite_dmatrix_get_dimension(objs[o].handle, fault)
       IN  /\ Commit(r.nat)
           /\ ret' = Returned("nrows", o, << >>, r, r.val[2])
    /\ UNCHANGED <<free_panic, prog, objs, conv>>

nrows(o, fault) ==
    /\ prog = "running"
    /\ objs[o].st = "live"
    /\ LET r == treelite_dmatrix_get_dimension(objs[o].handle, fault)
       IN  /\ Commit(r.nat)
           /\ ret' = Returned("nrows", o, << >>, r, r.val[1])
    /\ UNCHANGED <<free_panic, prog, objs, conv>>

\* ncols that releases the handle once it has read the dimensions
ncols_freeing(o, fault) ==
    /\ prog = "running"
    /\ objs[o].st = "live"
    /\ LET r == treelite_dmatrix_get_dimension(objs[o].handle, fault)
           f == TreeliteDMatrixFree(objs[o].handle, FALSE)
       IN  /\ Commit([f.nat EXCEPT !.store = r.nat.store])
           /\ ret' = Returned("ncols", o, << >>, r, r.val[2])
    /\ UNCHANGED <<free_panic, prog, objs, conv>>

ncols(o, fault) ==
    /\ prog = "running"
    /\ objs[o].st = "live"
    /\ LET r == treelite_dmatrix_get_dimension(objs[o].handle, fault)
       IN  /\ Commit(r.nat)
           /\ ret' = Returned("ncols", o, << >>, r, r.val[2])
    /\ UNCHANGED <<free_panic, prog, objs, conv>>

\* a panic while another is propagating aborts the process
Panic == IF prog = "running" THEN "unwinding" ELSE "aborted"

DropBody(o, fault, strict, calls) ==
    /\ prog \in {"running", "unwinding"}
    /\ objs[o].st = "live"
    /\ LET r == treelite_dmatrix_free(objs[o].handle, fault)
           p == ~r.ok /\ strict
       IN  /\ Commit(IF calls THEN r.nat ELSE Native)
           /\ prog' = IF p THEN Panic ELSE prog
           /\ ret' = [Returned("drop", o, << >>, r, 0) EXCEPT !.panicked = p]
    /\ objs' = [objs EXCEPT ![o] = [NoObject EXCEPT !.st = "dropped",
                                                    !.handle = objs[o].handle]]
    /\ UNCHANGED <<free_panic, conv>>

\* Drop for DMatrix that never calls the native free
drop_forgetful(o, fault) == DropBody(o, fault, free_panic, FALSE)

\* Drop for DMatrix that panics on a failed free whatever the feature says
drop_strict(o, fault) == DropBody(o, fault, TRUE, TRUE)

\* Drop for DMatrix
drop(o, fault) == DropBody(o, fault, free_panic, TRUE)

treelite_register_log_callback(rc, msg) ==
    /\ prog = "running"
    /\ LET r == Checked(TreeliteRegisterLogCallback(rc, msg))
       IN  /\ Commit(r.nat)
           /\ ret' = Returned("register_log_callback", 0, << >>, r, 0)
    /\ UNCHANGED <<free_panic, prog, objs, conv>>

(***************************************************************************)
(* Sampled C strings: every byte string of up to MaxTokenLen bytes over a  *)
(* sample of ASCII, lead, continuation and never-valid bytes, and some     *)
(* named ones.                                                             *)
(***************************************************************************)
ByteSample == {102, 50, 195, 169, 226, 130, 172, 128, 255}

ShortStrings == UNION {[1..n -> ByteSample] : n \in 0..MaxTokenLen}

NamedStrings ==
    {DTYPE_FLOAT32, DTYPE_FLOAT64, DTYPE_UINT32,
     <<102, 108, 111, 97, 116, 51>>,               \* "float3"
     <<102, 108, 111, 97, 116, 51, 50, 32>>,       \* "float32 "
     <<70, 108, 111, 97, 116, 51, 50>>,            \* "Float32"
     <<117, 105, 110, 116, 54, 52>>,               \* "uint64"
     <<102, 51, 50>>,                              \* "f32"
     <<226, 130, 172>>,                            \* the euro sign
     <<240, 159, 152, 128>>,                       \* U+1F600
     <<237, 160, 128>>,                            \* a surrogate, ill formed
     <<102, 108, 111, 97, 116, 51, 50, 255>>}      \* "float32" and a stray byte

Tokens == ShortStrings \cup NamedStrings

Messages == UNION {[1..n -> ByteSample] : n \in 0..MaxMsgLen} \cup {MsgShape, MsgHandle}

\* token.try_into(), and the token its DataType converts back to
TokenToDataType(tok) ==
    /\ LET r == try_into_DataType(tok)
       IN  conv' = [op |-> "try_into", arg |-> tok, res |-> r,
                    back |-> IF r.ok THEN from_DataType(r.val) ELSE << >>]
    /\ UNCHANGED <<free_panic, prog, objs, nextHandle, nativeLive, nativeDims,
                   freeCalls, lastError, ret>>

\* <&CStr>::from(d), and the DataType its token converts back to
DataTypeToToken(d) ==
    /\ LET t == from_DataType(d)
       IN  conv' = [op |-> "from", arg |-> d, res |-> t, back |-> try_into_DataType(t)]
    /\ UNCHANGED <<free_panic, prog, objs, nextHandle, nativeLive, nativeDims,
                   freeCalls, lastError, ret>>

(***************************************************************************)
(* Initial state: nothing constructed, nothing allocated, no call made.    *)
(***************************************************************************)
Init ==
    /\ free_panic \in BOOLEAN
    /\ prog = "running"
    /\ objs = [o \in Slots |-> NoObject]
    /\ nextHandle = 1
    /\ nativeLive = {}
    /\ nativeDims = [h \in Handles |-> NoDims]
    /\ freeCalls = [h \in Handles |-> 0]
    /\ lastError = << >>
    /\ ret = NoRet
    /\ conv = NoConv

(***************************************************************************)
(* Spec, the lifecycle of DMatrix objects: any interleaving of             *)
(* constructions, dimension queries and drops over MaxObjects objects.     *)
(* Each constructor gets inputs the library accepts and inputs it refuses. *)
(***************************************************************************)
CsrHeaders == {<<0, 1>>, <<1, 0>>, <<0>>}

CsrIndices == {<<0>>, <<1>>}

Next ==
    \/ \E o \in Slots, n \in {0, 2}, whim \in BOOLEAN : from_2darray(o, n, n, whim)
    \/ \E o \in Slots, len \in {0, 2}, whim \in BOOLEAN : from_slice(o, len, whim)
    \/ \E o \in Slots, len \in {0, 2}, whim \in BOOLEAN : try_into_DMatrix(o, len, whim)
    \/ \E o \in Slots, len \in {0, 2}, c \in {0, 2} : from_slice_with_cols(o, len, c)
    \/ \E o \in Slots, hd \in {<<0, 1>>, <<1, 0>>} : from_csr_format(o, hd, <<0>>, 1, 1)
    \/ \E o \in Slots, fault \in BOOLEAN : nrows(o, fault)
    \/ \E o \in Slots, fault \in BOOLEAN : ncols(o, fault)
    \/ \E o \in Slots, fault \in BOOLEAN : drop(o, fault)

Spec == Init /\ [][Next]_vars

(***************************************************************************)
(* SpecShape, the shape of one DMatrix: every constructor input up to      *)
(* MaxLen, then queries and the drop of the object built.                  *)
(***************************************************************************)
Lens == 0..MaxLen

NextShape ==
    \/ \E rows \in Lens, cols \in Lens, whim \in BOOLEAN : from_2darray(1, rows, cols, whim)
    \/ \E len \in Lens, whim \in BOOLEAN : from_slice(1, len, whim)
    \/ \E len \in Lens, whim \in BOOLEAN : try_into_DMatrix(1, len, whim)
    \/ \E len \in Lens, c \in Lens : from_slice_with_cols(1, len, c)
    \/ \E hd \in CsrHeaders, ix \in CsrIndices, nr \in {0, 1}, nc \in {1, 2} :
           from_csr_format(1, hd, ix, nr, nc)
    \/ \E fault \in BOOLEAN : nrows(1, fault)
    \/ \E fault \in BOOLEAN : ncols(1, fault)
    \/ \E fault \in BOOLEAN : drop(1, fault)

SpecShape == Init /\ [][NextShape]_vars

(***************************************************************************)
(* SpecCheck, the return-code translator: log-callback registrations under *)
(* every sampled return code and last-error message.                       *)
(***************************************************************************)
NextCheck ==
    \E rc \in RetCodes, msg \in Messages : treelite_register_log_callback(rc, msg)

SpecCheck == Init /\ [][NextCheck]_vars

(***************************************************************************)
(* SpecTypes, the data-type tag bridge: conversions of every sampled token *)
(* and of every DataType.                                                  *)
(***************************************************************************)
NextTypes ==
    \/ \E tok \in Tokens : TokenToDataType(tok)
    \/ \E d \in DataType : DataTypeToToken(d)

SpecTypes == Init /\ [][NextTypes]_vars

(***************************************************************************)
(* Vocabulary of the properties.                                           *)
(***************************************************************************)
Ctors == {"from_2darray", "from_slice", "try_into", "from_slice_with_cols",
          "from_csr_format"}

Queries == {"nrows", "ncols"}

Built == {o \in Slots : objs[o].st # "none"}

Dropped == {o \in Slots : objs[o].st = "dropped"}

RECURSIVE FreesUpTo(_)
FreesUpTo(h) == IF h = 0 THEN 0 ELSE freeCalls[h] + FreesUpTo(h - 1)

TotalFrees == FreesUpTo(MaxObjects)

\* the <<rows, cols>> the specification gives a matrix built by op from args
ShapeOf(op, args) ==
    CASE op = "from_2darray" -> <<args[1], args[2]>>
      [] op \in {"from_slice", "try_into"} -> <<1, args[1]>>
      [] op = "from_slice_with_cols" -> <<args[1] \div args[2], args[2]>>
      [] op = "from_csr_format" -> <<args[3], args[4]>>

IsAscii(b) == \A i \in 1..Len(b) : b[i] < 128

\* String::as_bytes: the UTF-8 encoding of a string
Utf8Of(c) ==
    IF c < 128 THEN <<c>>
    ELSE IF c < 2048 THEN <<192 + (c \div 64), 128 + (c % 64)>>
    ELSE IF c < 65536
    THEN <<224 + (c \div 4096), 128 + ((c \div 64) % 64), 128 + (c % 64)>>
    ELSE <<240 + (c \div 262144), 128 + ((c \div 4096) % 64),
           128 + ((c \div 64) % 64), 128 + (c % 64)>>

RECURSIVE as_bytes(_)
as_bytes(text) ==
    IF text = << >> THEN << >> ELSE Utf8Of(Head(text)) \o as_bytes(Tail(text))

(***************************************************************************)
(* C1.  Every handle a constructor returned is freed exactly once by the   *)
(* drop of its object: each handle belongs to one object, a dropped        *)
(* object's handle has received one free call and a live object's none, no *)
(* handle ever receives two, and the free calls number the dropped         *)
(* objects, so that N constructions followed by N drops make N free calls. *)
(***************************************************************************)
C1_FreedExactlyOnce ==
    /\ \A h \in Handles : freeCalls[h] \in {0, 1}
    /\ \A h \in Handles :
           h < nextHandle <=> \E o \in Built : objs[o].handle = h
    /\ \A o, p \in Built : objs[o].handle = objs[p].handle => o = p
    /\ \A o \in Slots :
           /\ objs[o].st = "dropped" => freeCalls[objs[o].handle] = 1
           /\ objs[o].st = "live" => freeCalls[objs[o].handle] = 0
    /\ TotalFrees = Cardinality(Dropped)

C1_Witness ==
    /\ ~free_panic
    /\ Dropped = Slots
    /\ TotalFrees = MaxObjects

(***************************************************************************)
(* C2.  check() fails exactly on a nonzero return code; it then queries    *)
(* the last-error store once and returns CError with the store's text      *)
(* (lossily decoded); on zero it succeeds and makes no query.              *)
(***************************************************************************)
C2_CheckUniform ==
    ret.op = "register_log_callback" =>
        /\ ret.ok <=> ret.rc = 0
        /\ ret.rc # 0 =>
               /\ ret.queried = 1
               /\ ret.err.kind = "CError"
               /\ ret.err.text = to_string_lossy(lastError)
               /\ IsAscii(lastError) => ret.err.text = lastError
        /\ ret.rc = 0 => ret.queried = 0 /\ ret.err = NoError

C2_Witness ==
    /\ ret.op = "register_log_callback"
    /\ ret.rc < 0
    /\ ~ret.ok
    /\ lastError = MsgShape
    /\ ret.err = [kind |-> "CError", text |-> <<83, 33>>]

(***************************************************************************)
(* C3.  Each of "float32", "float64", "uint32" converts to Float32,        *)
(* Float64, UInt32 and that value converts back to the same token; each    *)
(* DataType converts to its token and the token converts back to it.       *)
(***************************************************************************)
C3_RoundTrip ==
    /\ conv.op = "try_into" =>
           /\ conv.arg = DTYPE_FLOAT32 => conv.res.ok /\ conv.res.val = "Float32"
           /\ conv.arg = DTYPE_FLOAT64 => conv.res.ok /\ conv.res.val = "Float64"
           /\ conv.arg = DTYPE_UINT32 => conv.res.ok /\ conv.res.val = "UInt32"
           /\ conv.res.ok => conv.back = conv.arg
    /\ conv.op = "from" =>
           /\ conv.arg = "Float32" => conv.res = <<102, 108, 111, 97, 116, 51, 50>>
           /\ conv.arg = "Float64" => conv.res = <<102, 108, 111, 97, 116, 54, 52>>
           /\ conv.arg = "UInt32" => conv.res = <<117, 105, 110, 116, 51, 50>>
           /\ conv.back = [ok |-> TRUE, val |-> conv.arg, err |-> NoError]

C3_Witness ==
    /\ conv.op = "from"
    /\ conv.arg = "UInt32"
    /\ conv.back.ok
    /\ conv.back.val = "UInt32"

(***************************************************************************)
(* C4, as stated.  A token that is none of the three fails with            *)
(* UnknownDataTypeString carrying exactly the offending string: the bytes  *)
(* of the carried string are the bytes of the token.                       *)
(***************************************************************************)
C4_ExactString ==
    (conv.op = "try_into" /\ conv.arg \notin {DTYPE_FLOAT32, DTYPE_FLOAT64, DTYPE_UINT32}) =>
        /\ ~conv.res.ok
        /\ conv.res.err.kind = "UnknownDataTypeString"
        /\ as_bytes(conv.res.err.text) = conv.arg

(***************************************************************************)
(* C4, amended.  A token that is none of the three fails with              *)
(* UnknownDataTypeString, never a DataType and never CError, carrying the  *)
(* token's lossy UTF-8 decoding: the token itself when it is ASCII, and a  *)
(* string holding U+FFFD whenever its bytes are not the token's.  A token  *)
(* succeeds only when it is one of the three.                              *)
(***************************************************************************)
C4_LossyString ==
    conv.op = "try_into" =>
        /\ conv.res.ok <=> conv.arg \in {DTYPE_FLOAT32, DTYPE_FLOAT64, DTYPE_UINT32}
        /\ ~conv.res.ok =>
               /\ conv.res.val = "none"
               /\ conv.res.err.kind = "UnknownDataTypeString"
               /\ conv.res.err.text = to_string_lossy(conv.arg)
               /\ IsAscii(conv.arg) => conv.res.err.text = conv.arg
               /\ as_bytes(conv.res.err.text) # conv.arg =>
                      \E i \in 1..Len(conv.res.err.text) :
                          conv.res.err.text[i] = REPLACEMENT_CHARACTER

C4_Witness ==
    /\ conv.op = "try_into"
    /\ conv.arg = <<102, 255>>
    /\ ~conv.res.ok
    /\ conv.res.err = [kind |-> "UnknownDataTypeString", text |-> <<102, 65533>>]

(***************************************************************************)
(* C5.  A drop always completes the object's destruction.  When the native *)
(* free fails, the default build suppresses the failure (no panic, the     *)
(* native resource stays allocated) and the free_panic build panics; when  *)
(* the free succeeds no build panics.  Nothing else stops the program: the *)
(* default build never leaves "running".                                   *)
(***************************************************************************)
C5_DropPolicy ==
    /\ ret.op = "drop" =>
           /\ objs[ret.obj].st = "dropped"
           /\ ret.ok <=> ret.rc = 0
           /\ ret.panicked <=> (free_panic /\ ~ret.ok)
           /\ ret.panicked => prog \in {"unwinding", "aborted"}
           /\ ~ret.ok => objs[ret.obj].handle \in nativeLive
           /\ ret.ok => objs[ret.obj].handle \notin nativeLive
    /\ ~free_panic => prog = "running"

C5_Witness ==
    /\ ~free_panic
    /\ ret.op = "drop"
    /\ ~ret.ok
    /\ prog = "running"
    /\ objs[ret.obj].handle \in nativeLive

(***************************************************************************)
(* C6.  from_slice_with_cols(s, ncols) succeeds exactly when ncols divides *)
(* len(s); the matrix it builds reports len(s) / ncols rows and ncols      *)
(* columns on every successful query; when it fails it returns an error    *)
(* and no DMatrix exists.                                                  *)
(***************************************************************************)
C6_SliceWithCols ==
    /\ ret.op = "from_slice_with_cols" =>
           /\ ret.ok <=> (ret.args[2] > 0 /\ ret.args[1] % ret.args[2] = 0)
           /\ ret.ok => objs[ret.obj] = DMatrix(ret.val, ret.op, ret.args)
           /\ ~ret.ok => objs[ret.obj].st = "none" /\ ret.err.kind = "CError"
    /\ (ret.op \in Queries /\ ret.ok /\ objs[ret.obj].op = "from_slice_with_cols") =>
           LET len == objs[ret.obj].args[1]
               c == objs[ret.obj].args[2]
           IN  /\ ret.op = "nrows" => ret.val = len \div c
               /\ ret.op = "ncols" => ret.val = c

C6_Witness ==
    /\ ret.op = "nrows"
    /\ ret.ok
    /\ objs[1].op = "from_slice_with_cols"
    /\ objs[1].args = <<2, 1>>
    /\ ret.val = 2

(***************************************************************************)
(* C7.  from_slice(s), and the TryInto conversion it delegates to, succeed *)
(* on a non-empty slice, and the matrix reports 1 row and len(s) columns   *)
(* on every successful query.                                              *)
(***************************************************************************)
C7_FromSlice ==
    /\ (ret.op \in {"from_slice", "try_into"} /\ ret.args[1] > 0) =>
           ret.ok /\ objs[ret.obj] = DMatrix(ret.val, ret.op, ret.args)
    /\ (ret.op \in Queries /\ ret.ok /\ objs[ret.obj].op \in {"from_slice", "try_into"}
            /\ objs[ret.obj].args[1] > 0) =>
           /\ ret.op = "nrows" => ret.val = 1
           /\ ret.op = "ncols" => ret.val = objs[ret.obj].args[1]

C7_Witness ==
    /\ ret.op = "ncols"
    /\ ret.ok
    /\ objs[1].op = "from_slice"
    /\ objs[1].args = <<2>>
    /\ ret.val = 2

(***************************************************************************)
(* C8.  Per handle the native library sees create, then queries, then one  *)
(* free: a handle in use was returned by one constructor call and belongs  *)
(* to one object; a query is made on a handle that has received no free    *)
(* call; a free call is made only by the drop of the live object owning    *)
(* the handle, once.                                                       *)
(***************************************************************************)
C8_Ordered ==
    /\ \A o \in Built : objs[o].handle \in Handles /\ objs[o].handle < nextHandle
    /\ \A o, p \in Built : objs[o].handle = objs[p].handle => o = p
    /\ \A h \in Handles : freeCalls[h] > 0 => h < nextHandle
    /\ ret.op \in Queries =>
           objs[ret.obj].st = "live" /\ freeCalls[objs[ret.obj].handle] = 0

C8_FreeOnlyByDrop ==
    \A h \in Handles :
        freeCalls'[h] # freeCalls[h] =>
            /\ freeCalls[h] = 0 /\ freeCalls'[h] = 1
            /\ ret'.op = "drop"
            /\ objs[ret'.obj].st = "live"
            /\ objs[ret'.obj].handle = h
            /\ objs'[ret'.obj].st = "dropped"

\* C8: the ordering holds in every state and every free call is a drop's
C8_Lifecycle == [](C8_Ordered) /\ [][C8_FreeOnlyByDrop]_vars

C8_Witness ==
    /\ objs[1].st = "dropped"
    /\ freeCalls[objs[1].handle] = 1
    /\ ret.op = "ncols"
    /\ ret.obj = 2
    /\ ret.ok

(***************************************************************************)
(* C9.  A constructor whose native create call fails returns the native    *)
(* error (CError with the last-error text), builds no DMatrix, and leaves  *)
(* the objects, the native allocations and the free calls as they were;    *)
(* every native allocation belongs to a DMatrix.                           *)
(***************************************************************************)
C9_NothingBuilt ==
    /\ (ret.op \in Ctors /\ ~ret.ok) =>
           /\ ret.rc # 0
           /\ ret.err = CError(to_string_lossy(lastError))
           /\ objs[ret.obj].st = "none"
    /\ \A h \in nativeLive : \E o \in Built : objs[o].handle = h
    /\ Cardinality(Built) = nextHandle - 1

C9_FailureChangesNothing ==
    (ret'.op \in Ctors /\ ~ret'.ok) =>
        UNCHANGED <<objs, nextHandle, nativeLive, nativeDims, freeCalls>>

C10_QueryFrame ==
    /\ ret'.op \in Queries =>
           UNCHANGED <<objs, nextHandle, nativeLive, nativeDims, freeCalls, prog>>
    /\ ~(UNCHANGED <<objs, nextHandle, nativeLive, nativeDims, freeCalls>>) =>
           ret'.op \in Ctors \cup {"drop"}
    /\ \A o \in Slots :
           objs[o].st = "live" => objs'[o] = objs[o] \/ objs'[o].st = "dropped"

C10_QueryValue ==
    (ret.op \in Queries /\ ret.ok) =>
        /\ ret.rc = 0
        /\ ret.val = ShapeOf(objs[ret.obj].op, objs[ret.obj].args)[IF ret.op = "nrows" THEN 1 ELSE 2]
        /\ ret.val = nativeDims[objs[ret.obj].handle][IF ret.op = "nrows" THEN 1 ELSE 2]

\* C10: queries return the fixed counts and change nothing
C10_PureReads == [](C10_QueryValue) /\ [][C10_QueryFrame]_vars

C10_Witness ==
    /\ ret.op = "nrows"
    /\ ~ret.ok
    /\ ret.err.kind = "CError"
    /\ objs[ret.obj].st = "live"
    /\ objs[ret.obj].handle \in nativeLive

=============================================================================
